---------------------------- MODULE Spec2Model ----------------------------
(***************************************************************************)
(* Model of scripts/fetch.mjs, the feed aggregation pipeline of the        *)
(* market-research live board (second, filtering revision of the script,   *)
(* lines 209-467 of the file).                                             *)
(*                                                                         *)
(* Text is modelled as a sequence of one-character strings so that the     *)
(* script's substring tests, regular expressions and length caps are       *)
(* computed rather than assumed.  A missing (undefined) string field and   *)
(* the empty string are both the empty sequence: the script only ever      *)
(* tests such fields with || and !, which treat the two alike.             *)
(*                                                                         *)
(* run() is modelled as a state machine (Spec).  The pure functions are    *)
(* additionally exercised one at a time on wider input families by the     *)
(* specifications SpecDedupe, SpecFilter, SpecFunding, SpecSummarize,      *)
(* SpecHashtags and SpecAssemble, which share the variables input, output  *)
(* and phase.                                                              *)
(***************************************************************************)
EXTENDS Integers, Sequences, FiniteSets, TLC

VARIABLES
    pc,         \* position of run(): "fetch", "summarize", "done", or "idle"
    key,        \* process.env.OPENAI_API_KEY is set
    feedIdx,    \* index into FEEDS of the next feed to retrieve
    attempts,   \* attempts[i]: number of parser.parseURL calls made for feed i
    fetched,    \* fetched[i]: "none", "failed" or "ok" - outcome of feed i
    payload,    \* payload[i]: the entries feed i returned (empty unless "ok")
    collected,  \* run()'s collected array
    items,      \* dedupeSort(collected).filter(isMRStory)
    results,    \* results[k]: summary promise of items[k]: pending or settled
    out,        \* the document handed to fs.writeFileSync
    input,      \* argument of the function under test (function harnesses)
    output,     \* its result
    phase       \* "ready" before the call, "done" after it, "off" in Spec

vars == <<pc, key, feedIdx, attempts, fetched, payload, collected, items,
          results, out, input, output, phase>>

pipelineVars == <<pc, key, feedIdx, attempts, fetched, payload, collected,
                  items, results, out>>

(***************************************************************************)
(* Bounds of the model.                                                    *)
(***************************************************************************)
\* SpecSummarize: a text is at most this many segments of SegPalette.
MaxSegs == 3

\* SpecDedupe: dedupeSort is given at most this many items.
MaxAll == 3

\* SpecFilter: a title is at most this many words of FilterWords.
MaxFilterWords == 2

\* SpecFunding: a title is at most this many words of FundingWords.
MaxFundingWords == 2

\* SpecHashtags: the titles hold at most this many words of HashWords in all.
MaxHashWords == 3

\* SpecHashtags: the long title holds at most this many distinct words.
MaxBigTokens == 22

\* SpecAssemble: the document is assembled from at most this many enriched items.
MaxEnriched == 53

\* Spec: a feed answers with at most this many entries of its catalogue.
MaxFeedEntries == 2

(***************************************************************************)
(* Strings.                                                                *)
(***************************************************************************)
Min(a, b) == IF a < b THEN a ELSE b

Rep(c, n) == [i \in 1..n |-> c]

Take(s, n) == SubSeq(s, 1, Min(n, Len(s)))

\* Concatenation of f[lo..hi], splitting the range in halves.
RECURSIVE ConcatRange(_, _, _)
ConcatRange(f, lo, hi) ==
    IF lo > hi THEN <<>>
    ELSE IF lo = hi THEN f[lo]
    ELSE LET mid == (lo + hi) \div 2
         IN  ConcatRange(f, lo, mid) \o ConcatRange(f, mid + 1, hi)

Concat(f) == ConcatRange(f, 1, Len(f))

\* Array.prototype.join
Join(parts, sep) ==
    Concat([i \in 1..Len(parts) |-> IF i = 1 THEN parts[i] ELSE sep \o parts[i]])

UpperAlpha ==
    <<"A","B","C","D","E","F","G","H","I","J","K","L","M",
      "N","O","P","Q","R","S","T","U","V","W","X","Y","Z">>

LowerAlpha ==
    <<"a","b","c","d","e","f","g","h","i","j","k","l","m",
      "n","o","p","q","r","s","t","u","v","w","x","y","z">>

Digits == {"0","1","2","3","4","5","6","7","8","9"}

LowerLetters == {LowerAlpha[i] : i \in 1..26}

UpperLetters == {UpperAlpha[i] : i \in 1..26}

Lower(c) ==
    IF c \in UpperLetters
    THEN LowerAlpha[CHOOSE i \in 1..26 : UpperAlpha[i] = c]
    ELSE c

Upper(c) ==
    IF c \in LowerLetters
    THEN UpperAlpha[CHOOSE i \in 1..26 : LowerAlpha[i] = c]
    ELSE c

\* String.prototype.toLowerCase / toUpperCase
toLowerCase(s) == [i \in 1..Len(s) |-> Lower(s[i])]

toUpperCase(s) == [i \in 1..Len(s) |-> Upper(s[i])]

\* the regular expression class \s
WS == {" ", "\t", "\n"}

\* the regular expression class \w
WordChars == LowerLetters \cup UpperLetters \cup Digits \cup {"_"}

\* s has t at offset i (0-based)
HasAt(s, i, t) == i >= 0 /\ i + Len(t) <= Len(s) /\ SubSeq(s, i + 1, i + Len(t)) = t

\* String.prototype.includes
includes(s, t) == \E i \in 0..(Len(s) - Len(t)) : HasAt(s, i, t)

\* String.prototype.trim
trim(s) ==
    IF \A i \in 1..Len(s) : s[i] \in WS THEN <<>>
    ELSE LET first == CHOOSE i \in 1..Len(s) :
                          s[i] \notin WS /\ \A j \in 1..(i - 1) : s[j] \in WS
             n     == Len(s)
             back  == CHOOSE d \in 0..(n - 1) :
                          s[n - d] \notin WS /\ \A j \in (n - d + 1)..n : s[j] \in WS
         IN  SubSeq(s, first, n - back)

(***************************************************************************)
(* Summarization.                                                          *)
(***************************************************************************)
SUMMARY_MAX_CHARS == 240

\* U+2026, one UTF-16 code unit
ELLIPSIS == "[U+2026]"

\* text.replace(/\s+/g, ' '): what position i of s contributes
CollapseAt(s, i) ==
    IF s[i] \in WS
    THEN IF i > 1 /\ s[i - 1] \in WS THEN <<>> ELSE <<" ">>
    ELSE <<s[i]>>

CollapseWs(s) == Concat([i \in 1..Len(s) |-> CollapseAt(s, i)])

\* .replace(/<\/?[^>]+(>|$)/g, ''): one step of the left-to-right scan.  A match
\* starts at a "<" that is followed by a character other than ">", and runs
\* through the next ">" or, when there is none, to the end of the string.
TagStep(s, i, inTag) ==
    IF inTag THEN [kept |-> <<>>, inTag |-> s[i] # ">"]
    ELSE IF s[i] = "<" /\ i < Len(s) /\ s[i + 1] # ">"
         THEN [kept |-> <<>>, inTag |-> TRUE]
         ELSE [kept |-> <<s[i]>>, inTag |-> FALSE]

RECURSIVE TagScan(_, _, _, _)
TagScan(s, lo, hi, inTag) ==
    IF lo > hi THEN [kept |-> <<>>, inTag |-> inTag]
    ELSE IF lo = hi THEN TagStep(s, lo, inTag)
    ELSE LET mid == (lo + hi) \div 2
             l   == TagScan(s, lo, mid, inTag)
             r   == TagScan(s, mid + 1, hi, l.inTag)
         IN  [kept |-> l.kept \o r.kept, inTag |-> r.inTag]

StripTags(s) == TagScan(s, 1, Len(s), FALSE).kept

SentenceEnd == {".", "?", "!"}

\* Start of the first match of /(?<=[.?!])\s+/ at or after position from; 0 if none.
SplitStart(s, from) ==
    LET P == {i \in from..Len(s) : i > 1 /\ s[i] \in WS /\ s[i - 1] \in SentenceEnd}
    IN  IF P = {} THEN 0 ELSE CHOOSE i \in P : \A j \in P : i <= j

\* Last position of the whitespace run that starts at i.
RunEnd(s, i) ==
    CHOOSE j \in i..Len(s) :
        /\ \A k \in i..j : s[k] \in WS
        /\ j = Len(s) \/ s[j + 1] \notin WS

\* clean.split(/(?<=[.?!])\s+/).slice(0, 2).join(' ')
FirstTwoSentences(clean) ==
    LET i1 == SplitStart(clean, 1)
    IN  IF i1 = 0 THEN clean
        ELSE LET j1 == RunEnd(clean, i1)
                 i2 == SplitStart(clean, j1 + 1)
                 s1 == SubSeq(clean, 1, i1 - 1)
                 s2 == SubSeq(clean, j1 + 1, IF i2 = 0 THEN Len(clean) ELSE i2 - 1)
             IN  s1 \o <<" ">> \o s2

\* cuts at max characters and then appends the ellipsis
TruncateKeepMax(base, max) ==
    IF Len(base) > max THEN SubSeq(base, 1, max) \o <<ELLIPSIS>> ELSE base

\* base.length > max ? base.slice(0, max - 1) + ellipsis : base
Truncate(base, max) ==
    IF Len(base) > max THEN SubSeq(base, 1, max - 1) \o <<ELLIPSIS>> ELSE base

summarizeFallback(text, max) ==
    IF text = <<>> THEN <<>>
    ELSE LET clean     == trim(StripTags(CollapseWs(text)))
             sentences == FirstTwoSentences(clean)
             base      == IF sentences # <<>> THEN sentences ELSE clean
         IN  Truncate(base, max)

\* A backend call ends in one of these ways: the request fails or answers with a
\* non-2xx status (ok = FALSE), or it answers with a body whose
\* choices[0].message.content is content (absent content is the empty sequence).
Response(ok, content) == [ok |-> ok, content |-> content]

summarizeAI(text, hasKey, resp) ==
    IF ~hasKey THEN summarizeFallback(text, SUMMARY_MAX_CHARS)
    ELSE IF ~resp.ok THEN summarizeFallback(text, SUMMARY_MAX_CHARS)
    ELSE LET reply == trim(resp.content)
         IN  IF reply # <<>>
             THEN summarizeFallback(reply, SUMMARY_MAX_CHARS)
             ELSE summarizeFallback(text, SUMMARY_MAX_CHARS)

(***************************************************************************)
(* Array.prototype.sort(comparefn).  The sort is stable.  ECMAScript fixes *)
(* the result only when comparefn is a consistent comparator for the       *)
(* elements; otherwise the order is implementation-defined, and the model  *)
(* lets it be any permutation.  c[i, j] is the comparator's result for     *)
(* elements i and j after SortCompare has turned NaN into +0.             *)
(***************************************************************************)
IsConsistent(c, n) ==
    \A i, j \in 1..n :
        /\ (i = j => c[i, j] = 0)
        /\ (c[i, j] < 0 <=> c[j, i] > 0)
        /\ \A k \in 1..n :
              /\ (c[i, j] = 0 /\ c[j, k] = 0 => c[i, k] = 0)
              /\ (c[i, j] < 0 /\ c[j, k] < 0 => c[i, k] < 0)

\* The stable sort under a consistent comparator: element i goes behind every
\* element that compares smaller and every equal element that stood before it.
StableSorted(s, c) ==
    LET n == Len(s)
        Before(j, i) == c[j, i] < 0 \/ (c[j, i] = 0 /\ j < i)
        rank == [i \in 1..n |-> 1 + Cardinality({j \in 1..n : Before(j, i)})]
    IN  [k \in 1..n |-> s[CHOOSE i \in 1..n : rank[i] = k]]

Reorderings(s) ==
    LET n == Len(s)
    IN  {[k \in 1..n |-> s[p[k]]] :
            p \in {q \in [1..n -> 1..n] : \A a, b \in 1..n : q[a] = q[b] => a = b}}

SortOutcomes(s, c) ==
    IF IsConsistent(c, Len(s)) THEN {StableSorted(s, c)} ELSE Reorderings(s)

(***************************************************************************)
(* Dates.  A date string is an atom; new Date(string) is the table below:  *)
(* the time value as a day number, or an invalid Date (time value NaN).    *)
(* Two strings may denote one instant.                                     *)
(***************************************************************************)
DAY1_ISO == "2025-01-01T00:00:00.000Z"
DAY1_RFC == "Wed, 01 Jan 2025 00:00:00 GMT"
DAY2_ISO == "2025-01-02T00:00:00.000Z"
DAY3_ISO == "2025-01-03T00:00:00.000Z"
BAD_DATE == "date to be announced"
\* new Date().toISOString() for the instant of the run
NOW_ISO  == "2025-01-04T00:00:00.000Z"

NewDate(d) ==
    CASE d = DAY1_ISO -> [valid |-> TRUE, time |-> 1]
      [] d = DAY1_RFC -> [valid |-> TRUE, time |-> 1]
      [] d = DAY2_ISO -> [valid |-> TRUE, time |-> 2]
      [] d = DAY3_ISO -> [valid |-> TRUE, time |-> 3]
      [] d = NOW_ISO  -> [valid |-> TRUE, time |-> 4]
      [] OTHER        -> [valid |-> FALSE, time |-> 0]

(***************************************************************************)
(* URLs: new URL(u).hostname for http(s) URLs without credentials; any     *)
(* other string makes the constructor throw.                               *)
(***************************************************************************)
SchemeHttp  == <<"h","t","t","p",":","/","/">>
SchemeHttps == <<"h","t","t","p","s",":","/","/">>

HostStop == {"/", "?", "#", ":"}

ParseURL(u) ==
    LET l      == toLowerCase(u)
        skip   == IF HasAt(l, 0, SchemeHttps) THEN Len(SchemeHttps)
                  ELSE IF HasAt(l, 0, SchemeHttp) THEN Len(SchemeHttp)
                  ELSE 0
        stops  == {i \in (skip + 1)..Len(l) : l[i] \in HostStop}
        last   == IF stops = {} THEN Len(l)
                  ELSE (CHOOSE i \in stops : \A j \in stops : i <= j) - 1
        host   == SubSeq(l, skip + 1, last)
    IN  IF skip = 0 \/ host = <<>> \/ \E i \in 1..Len(host) : host[i] \in WS
        THEN [ok |-> FALSE, hostname |-> <<>>]
        ELSE [ok |-> TRUE, hostname |-> host]

\* function hostname(u): '' when the URL does not parse
hostname(u) == LET url == ParseURL(u) IN IF url.ok THEN toLowerCase(url.hostname) ELSE <<>>

Www == <<"w","w","w",".">>

\* .replace(/^www\./, '')
StripWww(h) == IF HasAt(h, 0, Www) THEN SubSeq(h, Len(Www) + 1, Len(h)) ELSE h

Or(a, b) == IF a # <<>> THEN a ELSE b

OrDate(a, b) == IF a # "" THEN a ELSE b

\* A raw entry of the feed parser: every field may be missing.
Entry(title, link, isoDate, pubDate, creator, snippet) ==
    [title |-> title, link |-> link, isoDate |-> isoDate, pubDate |-> pubDate,
     creator |-> creator, author |-> <<>>, contentSnippet |-> snippet,
     summary |-> <<>>, content |-> <<>>]

toItem(entry) ==
    LET url == ParseURL(entry.link)
        by  == Or(entry.creator, entry.author)
    IN  [title   |-> Or(entry.title, <<"U","n","t","i","t","l","e","d">>),
         link    |-> entry.link,
         isoDate |-> OrDate(OrDate(entry.isoDate, entry.pubDate), NOW_ISO),
         source  |-> IF entry.link # <<>> /\ ~url.ok THEN by
                     ELSE Or(IF entry.link # <<>> THEN StripWww(url.hostname) ELSE <<>>, by),
         raw     |-> Or(Or(entry.contentSnippet, entry.summary), entry.content)]

(***************************************************************************)
(* dedupeSort                                                              *)
(***************************************************************************)
RECURSIVE DedupeLoop(_, _, _, _)
DedupeLoop(all, i, seen, dedup) ==
    IF i > Len(all) THEN dedup
    ELSE IF all[i].link = <<>> \/ all[i].link \in seen
         THEN DedupeLoop(all, i + 1, seen, dedup)
         ELSE DedupeLoop(all, i + 1, seen \cup {all[i].link}, Append(dedup, all[i]))

\* keeps the last item of each link instead of the first
DedupeKeepLast(all) ==
    LET n == Len(all)
        rev == [i \in 1..n |-> all[n + 1 - i]]
        d == DedupeLoop(rev, 1, {}, <<>>)
    IN  [i \in 1..Len(d) |-> d[Len(d) + 1 - i]]

Dedupe(all) == DedupeLoop(all, 1, {}, <<>>)

\* (a, b) => new Date(b.isoDate) - new Date(a.isoDate), NaN read as +0
CompareByDate(a, b) ==
    LET da == NewDate(a.isoDate)
        db == NewDate(b.isoDate)
    IN  IF da.valid /\ db.valid THEN db.time - da.time ELSE 0

dedupeSort(all) ==
    LET dedup == Dedupe(all)
        n     == Len(dedup)
    IN  SortOutcomes(dedup, [i \in 1..n, j \in 1..n |-> CompareByDate(dedup[i], dedup[j])])

(***************************************************************************)
(* Relevance filter.                                                       *)
(***************************************************************************)
POSITIVE_MR ==
    { <<"m","a","r","k","e","t"," ","r","e","s","e","a","r","c","h">>,
      <<"c","o","n","s","u","m","e","r"," ","i","n","s","i","g","h","t">>,
      <<"c","o","n","s","u","m","e","r"," ","i","n","s","i","g","h","t","s">>, <<"m","r","x">>,
      <<"s","u","r","v","e","y">>, <<"s","u","r","v","e","y","s">>,
      <<"q","u","e","s","t","i","o","n","n","a","i","r","e">>, <<"p","a","n","e","l">>,
      <<"p","a","n","e","l","l","i","s","t">>, <<"s","a","m","p","l","e">>,
      <<"f","o","c","u","s"," ","g","r","o","u","p">>, <<"f","g","d">>,
      <<"q","u","a","l","i","t","a","t","i","v","e">>,
      <<"q","u","a","n","t","i","t","a","t","i","v","e">>,
      <<"e","t","h","n","o","g","r","a","p","h","y">>, <<"i","d","i">>,
      <<"i","n","-","d","e","p","t","h"," ","i","n","t","e","r","v","i","e","w">>,
      <<"d","i","s","c","u","s","s","i","o","n"," ","g","u","i","d","e">>,
      <<"c","o","n","c","e","p","t"," ","t","e","s","t">>,
      <<"c","o","p","y"," ","t","e","s","t">>, <<"a","d"," ","t","e","s","t">>,
      <<"a","d"," ","t","e","s","t","i","n","g">>, <<"c","o","n","j","o","i","n","t">>,
      <<"s","e","g","m","e","n","t","a","t","i","o","n">>, <<"m","a","x","d","i","f","f">>,
      <<"v","a","n"," ","w","e","s","t","e","n","d","o","r","p">>,
      <<"g","a","b","o","r"," ","g","r","a","n","g","e","r">>, <<"c","x">>,
      <<"c","u","s","t","o","m","e","r"," ","e","x","p","e","r","i","e","n","c","e">>,
      <<"n","p","s">>, <<"c","s","a","t">>, <<"e","s","o","m","a","r">>,
      <<"g","r","i","t","m">>,
      <<"i","n","s","i","g","h","t"," ","p","l","a","t","f","o","r","m">>,
      <<"f","i","e","l","d","w","o","r","k">>, <<"c","a","t","i">>, <<"c","a","w","i">>,
      <<"c","a","p","i">>, <<"o","n","l","i","n","e"," ","c","o","m","m","u","n","i","t","y">>,
      <<"d","i","a","r","y"," ","s","t","u","d","y">>,
      <<"u","s","a","b","i","l","i","t","y"," ","t","e","s","t">>,
      <<"c","a","r","d"," ","s","o","r","t">>, <<"t","r","e","e"," ","t","e","s","t">> }

NEGATIVE_GENERIC ==
    { <<"f","o","r","e","c","a","s","t">>, <<"f","o","r","e","c","a","s","t","s">>,
      <<"c","a","g","r">>, <<"m","a","r","k","e","t"," ","s","i","z","e">>, <<"u","s","d">>,
      <<"b","i","l","l","i","o","n">>, <<"m","i","l","l","i","o","n">>, <<"2","0","2","4">>,
      <<"2","0","2","5">>, <<"2","0","2","6">>, <<"2","0","2","7">>, <<"2","0","2","8">>,
      <<"2","0","2","9">>, <<"2","0","3","0">>,
      <<"r","e","s","e","a","r","c","h","a","n","d","m","a","r","k","e","t","s">>,
      <<"o","p","e","n","p","r">>, <<"i","n","d","u","s","t","r","y","t","o","d","a","y">>,
      <<"g","l","o","b","e","n","e","w","s","w","i","r","e">>,
      <<"p","r","n","e","w","s","w","i","r","e">>,
      <<"f","i","n","a","n","c","i","a","l","c","o","n","t","e","n","t">>,
      <<"y","a","h","o","o"," ","f","i","n","a","n","c","e">>,
      <<"s","e","e","k","i","n","g"," ","a","l","p","h","a">> }

SOURCE_WHITELIST ==
    { <<"r","e","s","e","a","r","c","h","-","l","i","v","e",".","c","o","m">>,
      <<"w","w","w",".","r","e","s","e","a","r","c","h","-","l","i","v","e",".","c","o","m">>,
      <<"q","u","i","r","k","s",".","c","o","m">>,
      <<"w","w","w",".","q","u","i","r","k","s",".","c","o","m">>,
      <<"m","r","w","e","b",".","c","o","m">>,
      <<"w","w","w",".","m","r","w","e","b",".","c","o","m">> }

\* item.raw || item.summary || '': an item has no summary before it is enriched
RawOrSummary(item) ==
    IF item.raw # <<>> THEN item.raw
    ELSE IF "summary" \in DOMAIN item THEN item.summary
    ELSE <<>>

\* looks the host up before the negative vocabulary
isMRStoryTrustFirst(item) ==
    LET text == toLowerCase(item.title) \o <<" ">> \o toLowerCase(RawOrSummary(item))
    IN  IF hostname(item.link) \in SOURCE_WHITELIST THEN TRUE
        ELSE IF \E neg \in NEGATIVE_GENERIC : includes(text, neg) THEN FALSE
        ELSE \E pos \in POSITIVE_MR : includes(text, pos)

isMRStory(item) ==
    LET title == toLowerCase(item.title)
        sum   == toLowerCase(RawOrSummary(item))
        text  == title \o <<" ">> \o sum
        host  == hostname(item.link)
    IN  IF \E neg \in NEGATIVE_GENERIC : includes(text, neg) THEN FALSE
        ELSE IF host \in SOURCE_WHITELIST THEN TRUE
        ELSE \E pos \in POSITIVE_MR : includes(text, pos)

\* Array.prototype.filter(isMRStory)
FilterMR(s) == SelectSeq(s, isMRStory)

(***************************************************************************)
(* Funding / M&A detector:                                                 *)
(* /(funding|raises|raised|seed|series\s+[a-e]\b|acquire|acquisition|      *)
(*   merger|m&a|buyout|invests|investment|venture|vc)/i                    *)
(***************************************************************************)
\* the alternatives that are plain words
FundingLiterals ==
    { <<"f","u","n","d","i","n","g">>, <<"r","a","i","s","e","s">>,
      <<"r","a","i","s","e","d">>, <<"s","e","e","d">>,
      <<"a","c","q","u","i","r","e">>,
      <<"a","c","q","u","i","s","i","t","i","o","n">>,
      <<"m","e","r","g","e","r">>, <<"m","&","a">>,
      <<"b","u","y","o","u","t">>, <<"i","n","v","e","s","t","s">>,
      <<"i","n","v","e","s","t","m","e","n","t">>,
      <<"v","e","n","t","u","r","e">>, <<"v","c">> }

\* the same with invest in place of invests and without raises
FundingLiteralsAsListed ==
    (FundingLiterals \ {<<"i","n","v","e","s","t","s">>, <<"r","a","i","s","e","s">>})
        \cup {<<"i","n","v","e","s","t">>}

Series == <<"s","e","r","i","e","s">>

SeriesLetters == {"a", "b", "c", "d", "e"}

\* series\s+[a-e]\b matches the lowercased string l at offset i (0-based)
SeriesAt(l, i) ==
    /\ HasAt(l, i, Series)
    /\ \E k \in 1..(Len(l) - i - Len(Series) - 1) :
          LET p == i + Len(Series) + k + 1       \* position of the letter
          IN  /\ \A j \in (i + Len(Series) + 1)..(p - 1) : l[j] \in WS
              /\ l[p] \in SeriesLetters
              /\ p = Len(l) \/ l[p + 1] \notin WordChars

\* r.test(s) for the expression with the given word alternatives; the i flag is
\* matching against the lowercased string
FundingTest(s, literals) ==
    LET l == toLowerCase(s)
    IN  \E i \in 0..Len(l) :
            \/ \E w \in literals : HasAt(l, i, w)
            \/ SeriesAt(l, i)

isFundingAsListed(title, summary) ==
    FundingTest(title, FundingLiteralsAsListed) \/ FundingTest(summary, FundingLiteralsAsListed)

isFunding(title, summary) ==
    FundingTest(title, FundingLiterals) \/ FundingTest(summary, FundingLiterals)

(***************************************************************************)
(* makeHashtags                                                            *)
(***************************************************************************)
STOP ==
    { <<"t","h","e">>, <<"a">>, <<"a","n">>, <<"a","n","d">>, <<"o","r">>, <<"t","o">>,
      <<"f","o","r">>, <<"o","f">>, <<"i","n">>, <<"o","n">>, <<"w","i","t","h">>,
      <<"f","r","o","m">>, <<"b","y">>, <<"a","s">>, <<"a","b","o","u","t">>, <<"a","t">>,
      <<"i","s">>, <<"a","r","e">>, <<"w","a","s">>, <<"w","e","r","e">>, <<"b","e">>,
      <<"b","e","e","n">>, <<"t","h","i","s">>, <<"t","h","a","t">>, <<"t","h","e","s","e">>,
      <<"t","h","o","s","e">>, <<"i","t">>, <<"i","t","s">>, <<"m","a","r","k","e","t">>,
      <<"r","e","s","e","a","r","c","h">>, <<"c","o","n","s","u","m","e","r">>,
      <<"i","n","s","i","g","h","t">>, <<"i","n","s","i","g","h","t","s">>,
      <<"s","t","u","d","y">>, <<"r","e","p","o","r","t">>, <<"r","e","p","o","r","t","s">>,
      <<"f","o","r","e","c","a","s","t">>, <<"f","o","r","e","c","a","s","t","s">>,
      <<"g","l","o","b","a","l">>, <<"e","x","p","e","c","t","e","d">>,
      <<"g","r","o","w","t","h">>, <<"i","n","d","u","s","t","r","y">>,
      <<"a","n","a","l","y","s","i","s">>, <<"t","r","e","n","d">>,
      <<"t","r","e","n","d","s">>, <<"s","a","y","s">>, <<"s","a","y","i","n","g">>,
      <<"r","e","a","c","h">>, <<"r","e","a","c","h","e","s">>,
      <<"b","i","l","l","i","o","n">>, <<"m","i","l","l","i","o","n">>, <<"u","s","d">>,
      <<"u","s">>, <<"c","a","g","r">>, <<"p","e","r","c","e","n","t">>, <<"y","e","a","r">>,
      <<"y","e","a","r","s">>, <<"2","0","2","4">>, <<"2","0","2","5">>, <<"2","0","2","6">>,
      <<"2","0","2","7">>, <<"2","0","2","8">>, <<"2","0","2","9">>, <<"2","0","3","0">>,
      <<"g","l","o","b","e","n","e","w","s","w","i","r","e">>, <<"o","p","e","n","p","r">>,
      <<"i","n","d","u","s","t","r","y","t","o","d","a","y","c","o","u","k">>,
      <<"i","n","d","u","s","t","r","y","t","o","d","a","y">>,
      <<"r","e","s","e","a","r","c","h","a","n","d","m","a","r","k","e","t","s">>,
      <<"b","u","s","i","n","e","s","s","s","t","a","n","d","a","r","d">>,
      <<"f","i","n","a","n","c","i","a","l","c","o","n","t","e","n","t">>,
      <<"p","r","n","e","w","s","w","i","r","e">>, <<"y","a","h","o","o">>,
      <<"y","a","h","o","o","f","i","n","a","n","c","e">>, <<"c","o","m">>,
      <<"n","e","w","s","g","o","o","g","l","e">>, <<"g","o","o","g","l","e">>,
      <<"n","e","w","s">>, <<"p","r","e","s","s">>, <<"r","e","l","e","a","s","e">> }

ALLOW_SHORT ==
    { <<"a","i">>, <<"m","r">>, <<"c","x">>, <<"u","x">>, <<"b","2","b">>, <<"b","2","c">>,
      <<"c","p","g">>, <<"d","2","c">>, <<"c","x","i">>, <<"n","p","s">> }

Dash == <<" ", "-", " ">>

DashOffsets(t) == {i \in 0..(Len(t) - Len(Dash)) : HasAt(t, i, Dash)}

\* drops only what follows the last ' - '
cleanTitleDropLast(t) ==
    LET offs == DashOffsets(t)
    IN  IF offs = {} THEN t
        ELSE SubSeq(t, 1, CHOOSE i \in offs : \A j \in offs : j <= i)

\* (t = '') => t.split(' - ').shift(): what stands before the first ' - '
cleanTitle(t) ==
    LET offs == DashOffsets(t)
    IN  IF offs = {} THEN t
        ELSE SubSeq(t, 1, CHOOSE i \in offs : \A j \in offs : i <= j)

\* the elements of a set of numbers in ascending order
Ascending(S) ==
    [k \in 1..Cardinality(S) |-> CHOOSE x \in S : Cardinality({y \in S : y <= x}) = k]

TokenChars == LowerLetters \cup Digits \cup {"#"}

\* title.toLowerCase().replace(/[^a-z0-9\s#]/g, ' ').split(/\s+/).filter(Boolean)
Words(title) ==
    LET l      == toLowerCase(title)
        s      == [i \in 1..Len(l) |-> IF l[i] \in TokenChars \cup WS THEN l[i] ELSE " "]
        starts == {i \in 1..Len(s) : s[i] \notin WS /\ (i = 1 \/ s[i - 1] \in WS)}
        EndOf(i) == CHOOSE j \in i..Len(s) :
                        /\ \A k \in i..j : s[k] \notin WS
                        /\ j = Len(s) \/ s[j + 1] \in WS
        order  == Ascending(starts)
    IN  [k \in 1..Len(order) |-> SubSeq(s, order[k], EndOf(order[k]))]

\* /^\d+$/
AllDigits(w) == w # <<>> /\ \A i \in 1..Len(w) : w[i] \in Digits

HostChars == LowerLetters \cup Digits \cup {"-"}

\* /^[a-z0-9-]+\.com$/
DotCom(w) ==
    /\ Len(w) >= 5
    /\ SubSeq(w, Len(w) - 3, Len(w)) = <<".", "c", "o", "m">>
    /\ \A i \in 1..(Len(w) - 4) : w[i] \in HostChars

CountrySuffixes ==
    { <<"c","o">>, <<"u","k">>, <<"i","n">>, <<"u","s">>, <<"e","u">>, <<"d","e">>,
      <<"f","r">>, <<"i","t">> }

\* /^(?:[a-z0-9-]+)(?:co|uk|in|us|eu|de|fr|it)$/
SuffixFragment(w) ==
    /\ Len(w) >= 3
    /\ SubSeq(w, Len(w) - 1, Len(w)) \in CountrySuffixes
    /\ \A i \in 1..Len(w) : w[i] \in HostChars

\* the word passes the four continue statements of the counting loop
Counted(w) ==
    /\ ~(w \notin ALLOW_SHORT /\ (Len(w) < 3 \/ AllDigits(w)))
    /\ w \notin STOP
    /\ ~DotCom(w)
    /\ ~SuffixFragment(w)

\* the words counted, over all items in order
CountedWords(news) ==
    Concat([i \in 1..Len(news) |-> SelectSeq(Words(cleanTitle(news[i].title)), Counted)])

\* freq = {} inherits the properties of Object.prototype.  For a word that names one
\* of them, freq[w] || 0 is the inherited function at the first occurrence, and
\* adding 1 to it makes a string, not a number.  Only one such name can be a word.
ObjectPrototypeNames == { <<"c","o","n","s","t","r","u","c","t","o","r">> }

\* freq[w] after the loop: a number of occurrences, or a string that has grown by
\* one character per occurrence
FreqOf(words, w) ==
    [isNumber |-> w \notin ObjectPrototypeNames,
     count    |-> Cardinality({i \in 1..Len(words) : words[i] = w})]

\* Object.entries(freq): the words in the order of their first occurrence
Entries(words) ==
    LET firsts == {i \in 1..Len(words) : \A j \in 1..(i - 1) : words[j] # words[i]}
        order  == Ascending(firsts)
    IN  [k \in 1..Len(order) |-> [word |-> words[order[k]],
                                    freq |-> FreqOf(words, words[order[k]])]]

\* collation order of the characters a word can hold
Collation ==
    <<"#","0","1","2","3","4","5","6","7","8","9">> \o LowerAlpha

CharRank(c) == CHOOSE i \in 1..Len(Collation) : Collation[i] = c

Sign(n) == IF n < 0 THEN -1 ELSE IF n > 0 THEN 1 ELSE 0

\* a.localeCompare(b)
localeCompare(a, b) ==
    LET diff == {i \in 1..Min(Len(a), Len(b)) : a[i] # b[i]}
    IN  IF diff = {} THEN Sign(Len(a) - Len(b))
        ELSE LET k == CHOOSE i \in diff : \A j \in diff : i <= j
             IN  Sign(CharRank(a[k]) - CharRank(b[k]))

\* (a, b) => (b[1] - a[1]) || a[0].localeCompare(b[0]); the difference is NaN, and
\* so falsy, when a count is a string
CompareEntries(a, b) ==
    IF a.freq.isNumber /\ b.freq.isNumber /\ b.freq.count # a.freq.count
    THEN b.freq.count - a.freq.count
    ELSE localeCompare(a.word, b.word)

HASHTAG_MAX == 20

SearchUrl ==
    <<"h","t","t","p","s",":","/","/","x",".","c","o","m","/","s","e","a","r","c","h",
      "?","q","=","%","2","3">>

\* encodeURIComponent on a word of TokenChars
encodeURIComponent(w) ==
    Concat([i \in 1..Len(w) |-> IF w[i] = "#" THEN <<"%","2","3">> ELSE <<w[i]>>])

Hashtag(w) ==
    [label |-> <<"#">> \o (IF w \in ALLOW_SHORT THEN toUpperCase(w) ELSE w),
     url   |-> SearchUrl \o encodeURIComponent(w)]

Curated(ranked) ==
    Take(SelectSeq(ranked, LAMBDA e : Len(e.word) >= 4 \/ e.word \in ALLOW_SHORT),
         HASHTAG_MAX)

\* the possible results of makeHashtags(items)
makeHashtags(news) ==
    LET entries == Entries(CountedWords(news))
        n       == Len(entries)
        compare == [i \in 1..n, j \in 1..n |-> CompareEntries(entries[i], entries[j])]
    IN  {LET curated == Curated(ranked)
         IN  [k \in 1..Len(curated) |-> Hashtag(curated[k].word)] :
            ranked \in SortOutcomes(entries, compare)}

(***************************************************************************)
(* Enrichment of one item: the callback of items.map in run().  Topic      *)
(* tagging (tagTopics) does not influence any other field and is left out. *)
(***************************************************************************)
WithSummary(it, summary) ==
    [f \in DOMAIN it \cup {"summary"} |-> IF f = "summary" THEN summary ELSE it[f]]

Enrich(it, hasKey, resp) ==
    WithSummary(it, summarizeAI(IF it.raw # <<>> THEN it.raw ELSE it.title, hasKey, resp))

(***************************************************************************)
(* Document assembly: the slices taken from enriched in run().             *)
(* topics_available, a constant list, is left out.                         *)
(***************************************************************************)
TOP_NEWS_MAX == 50

FUNDING_MAX == 50

TICKER_MAX == 30

\* takes the funding items from the top-news slice instead of from all of enriched
FundingSliceOfTopNews(enriched) ==
    Take(SelectSeq(Take(enriched, TOP_NEWS_MAX), LAMBDA it : isFunding(it.title, it.summary)),
         FUNDING_MAX)

\* enriched.filter(it => isFunding(it.title, it.summary)).slice(0, 50)
FundingSlice(enriched) ==
    Take(SelectSeq(enriched, LAMBDA it : isFunding(it.title, it.summary)), FUNDING_MAX)

TickerSlice(enriched) ==
    [i \in 1..Min(TICKER_MAX, Len(enriched)) |->
        [text |-> enriched[i].title, link |-> enriched[i].link]]

\* the possible documents: one per possible result of makeHashtags
Assemble(enriched) ==
    {[generated_at |-> NOW_ISO,
      top_news     |-> Take(enriched, TOP_NEWS_MAX),
      funding_ma   |-> FundingSlice(enriched),
      hashtags     |-> tags,
      ticker       |-> TickerSlice(enriched)] :
        tags \in makeHashtags(Take(enriched, TOP_NEWS_MAX))}

(***************************************************************************)
(* run()                                                                   *)
(***************************************************************************)
\* FEEDS: research-live, quirks, mrweb, Google News, retrieved in this order
FEEDS == 1..4

\* What each feed can answer with: the first entries of a fixed catalogue.  The
\* catalogues hold entries that pass the filter, entries without a link, entries
\* that repeat the link of another feed's entry, entries the filter rejects for a
\* negative term, and one it rejects for lack of a positive term.
RoundSnippet ==
    <<"R","o","u","n","d"," ","c","l","o","s","e","d","."," ","B","a","c","k","e","r","s"," ","c","h","e","e","r","."," ","M","o","r","e"," ","s","o","o","n",".">>

Catalogue1 ==
    << Entry(<<"P","a","n","e","l"," ","s","u","r","v","e","y">>,
             <<"h","t","t","p","s",":","/","/","w","w","w",".","r","e","s","e","a","r","c","h","-","l","i","v","e",".","c","o","m","/","a">>,
             DAY2_ISO, "", <<>>,
             <<"S","h","o","p","p","e","r","s"," ","l","i","k","e"," ","p","a","n","e","l","s","."," ","M","o","r","e"," ","s","o","o","n","."," ","E","x","t","r","a",".">>),
       Entry(<<"N","o"," ","l","i","n","k">>,
             <<>>,
             "", "", <<"S","t","a","f","f">>,
             <<"N","o","t","h","i","n","g",".">>),
       Entry(<<"F","o","r","e","c","a","s","t"," ","2","0","3","0">>,
             <<"h","t","t","p","s",":","/","/","w","w","w",".","r","e","s","e","a","r","c","h","-","l","i","v","e",".","c","o","m","/","b">>,
             DAY3_ISO, "", <<>>,
             <<"M","a","r","k","e","t"," ","s","i","z","e"," ","t","o"," ","g","r","o","w",".">>) >>

Catalogue2 ==
    << Entry(<<"A","c","m","e"," ","r","a","i","s","e","s"," ","s","e","e","d"," ","-"," ","Q","u","i","r","k","s">>,
             <<"h","t","t","p","s",":","/","/","w","w","w",".","q","u","i","r","k","s",".","c","o","m","/","c">>,
             "", DAY1_RFC, <<>>,
             RoundSnippet),
       Entry(<<"B","u","d","g","e","t"," ","2","0","2","6">>,
             <<"h","t","t","p","s",":","/","/","w","w","w",".","q","u","i","r","k","s",".","c","o","m","/","d">>,
             DAY1_ISO, "", <<>>,
             <<"N","u","m","b","e","r","s",".">>),
       Entry(<<"U","S","D"," ","r","a","t","e","s">>,
             <<"h","t","t","p","s",":","/","/","w","w","w",".","q","u","i","r","k","s",".","c","o","m","/","f">>,
             DAY2_ISO, "", <<>>,
             <<"R","a","t","e","s",".">>) >>

Catalogue3 ==
    << Entry(<<"A","c","m","e"," ","r","a","i","s","e","s"," ","s","e","e","d"," ","-"," ","M","r","W","e","b">>,
             <<"h","t","t","p","s",":","/","/","w","w","w",".","q","u","i","r","k","s",".","c","o","m","/","c">>,
             DAY3_ISO, "", <<>>,
             <<"A","g","a","i","n",".">>),
       Entry(<<>>,
             <<"h","t","t","p","s",":","/","/","w","w","w",".","m","r","w","e","b",".","c","o","m","/","e">>,
             "", "", <<"D","e","s","k">>,
             <<"F","i","e","l","d","w","o","r","k"," ","<","b",">","s","t","a","r","t","s","<","/","b",">"," ","t","o","d","a","y","!"," ","T","e","a","m","s"," "," "," ","r","e","a","d","y","?"," ","Y","e","s",".">>),
       Entry(<<"U","S","D"," ","r","a","t","e","s">>,
             <<"h","t","t","p","s",":","/","/","w","w","w",".","m","r","w","e","b",".","c","o","m","/","f">>,
             DAY2_ISO, "", <<>>,
             <<"R","a","t","e","s",".">>) >>

Catalogue4 ==
    << Entry(<<"H","e","l","l","o"," ","w","o","r","l","d">>,
             <<"h","t","t","p","s",":","/","/","n","e","w","s",".","g","o","o","g","l","e",".","c","o","m","/","g">>,
             DAY2_ISO, "", <<>>,
             <<"N","o","t","h","i","n","g"," ","h","e","r","e",".">>),
       Entry(<<"C","X"," ","s","u","r","v","e","y"," ","f","i","n","d","s"," ","-"," ","P","u","b","l","i","s","h","e","r">>,
             <<"h","t","t","p","s",":","/","/","w","w","w",".","r","e","s","e","a","r","c","h","-","l","i","v","e",".","c","o","m","/","a">>,
             DAY3_ISO, "", <<>>,
             <<>>),
       Entry(<<"B","i","l","l","i","o","n"," ","u","s","e","r","s">>,
             <<"h","t","t","p","s",":","/","/","n","e","w","s",".","g","o","o","g","l","e",".","c","o","m","/","h">>,
             DAY1_ISO, "", <<>>,
             <<"S","u","r","v","e","y",".">>) >>

Catalogue(feed) ==
    CASE feed = 1 -> Catalogue1
      [] feed = 2 -> Catalogue2
      [] feed = 3 -> Catalogue3
      [] feed = 4 -> Catalogue4

FeedReplies(feed) == {Take(Catalogue(feed), n) : n \in 0..MaxFeedEntries}

\* What the backend may answer with in run().
RunReplies == { <<"B","a","c","k","e","n","d"," ","s","a","y","s"," ","s","o",".">> }

LastFeed == 4

\* stops retrieving when a feed fails
AbortAfterFailure(feed) == LastFeed + 1

\* the loop goes on with the next feed when parseURL throws
AfterFailure(feed) == feed + 1

Pending == [settled |-> FALSE, at |-> 0, resp |-> Response(FALSE, <<>>), summary |-> <<>>]

NumSettled(rs) == Cardinality({k \in 1..Len(rs) : rs[k].settled})

TextOf(it) == IF it.raw # <<>> THEN it.raw ELSE it.title

\* the enriched items in the order their summaries arrived
EnrichedAsSettled(its, rs) ==
    [n \in 1..Len(its) |->
        LET k == CHOOSE j \in 1..Len(its) : rs[j].at = n
        IN  WithSummary(its[k], rs[k].summary)]

\* the array Promise.all resolves to: one enriched item per item, in item order
Enriched(its, rs) == [k \in 1..Len(its) |-> WithSummary(its[k], rs[k].summary)]

\* Promise.all resolves once every promise has
AllSettled(rs) == \A k \in 1..Len(rs) : rs[k].settled

Init ==
    /\ pc = "fetch"
    /\ key \in BOOLEAN
    /\ feedIdx = 1
    /\ attempts = [f \in FEEDS |-> 0]
    /\ fetched = [f \in FEEDS |-> "none"]
    /\ payload = [f \in FEEDS |-> <<>>]
    /\ collected = <<>>
    /\ items = <<>>
    /\ results = <<>>
    /\ out = <<>>
    /\ input = <<>>
    /\ output = <<>>
    /\ phase = "off"

\* What follows the loop over FEEDS without a further await: dedupeSort, the filter,
\* and the start of one summarization per item.
Dispatch(all) ==
    \E sorted \in dedupeSort(all) :
        /\ items' = FilterMR(sorted)
        /\ results' = [k \in 1..Len(FilterMR(sorted)) |-> Pending]
        /\ pc' = "summarize"

\* One turn of the loop over FEEDS ends: nxt is the feed to retrieve next.
Advance(nxt, all) ==
    /\ feedIdx' = nxt
    /\ collected' = all
    /\ IF nxt > LastFeed THEN Dispatch(all) ELSE UNCHANGED <<pc, items, results>>

\* parser.parseURL(url) resolves: every entry is pushed as an item
FetchOk ==
    /\ pc = "fetch"
    /\ feedIdx \in FEEDS
    /\ \E entries \in FeedReplies(feedIdx) :
          /\ attempts' = [attempts EXCEPT ![feedIdx] = @ + 1]
          /\ fetched' = [fetched EXCEPT ![feedIdx] = "ok"]
          /\ payload' = [payload EXCEPT ![feedIdx] = entries]
          /\ Advance(feedIdx + 1,
                     collected \o [i \in 1..Len(entries) |-> toItem(entries[i])])
    /\ UNCHANGED <<key, out, input, output, phase>>

\* parser.parseURL(url) throws: the catch block logs
FetchFail ==
    /\ pc = "fetch"
    /\ feedIdx \in FEEDS
    /\ attempts' = [attempts EXCEPT ![feedIdx] = @ + 1]
    /\ fetched' = [fetched EXCEPT ![feedIdx] = "failed"]
    /\ Advance(AfterFailure(feedIdx), collected)
    /\ UNCHANGED <<key, payload, out, input, output, phase>>

Settle(k, resp) ==
    /\ pc = "summarize"
    /\ k \in 1..Len(results)
    /\ ~results[k].settled
    /\ results' = [results EXCEPT ![k] =
                      [settled |-> TRUE, at |-> NumSettled(results) + 1, resp |-> resp,
                       summary |-> summarizeAI(TextOf(items[k]), key, resp)]]
    /\ UNCHANGED <<pc, key, feedIdx, attempts, fetched, payload, collected, items, out,
                   input, output, phase>>

\* summarizeAI of item k returns without a backend call: no credential
SettleLocal == \E k \in 1..Len(results) : ~key /\ Settle(k, Response(FALSE, <<>>))

\* the backend answers the call for item k
SettleReply ==
    \E k \in 1..Len(results), content \in RunReplies :
        key /\ Settle(k, Response(TRUE, content))

\* the backend call for item k fails
SettleFailed == \E k \in 1..Len(results) : key /\ Settle(k, Response(FALSE, <<>>))

\* Promise.all has resolved: the document is assembled and written
Write ==
    /\ pc = "summarize"
    /\ AllSettled(results)
    /\ out' \in Assemble(Enriched(items, results))
    /\ pc' = "done"
    /\ UNCHANGED <<key, feedIdx, attempts, fetched, payload, collected, items, results,
                   input, output, phase>>

Next == FetchOk \/ FetchFail \/ SettleLocal \/ SettleReply \/ SettleFailed \/ Write

Spec == Init /\ [][Next]_vars

(***************************************************************************)
(* Function harnesses: input is drawn from a bounded family, one action    *)
(* applies the function.  run()'s variables rest meanwhile.                *)
(***************************************************************************)
PipelineIdle ==
    /\ pc = "idle"
    /\ key = FALSE
    /\ feedIdx = 0
    /\ attempts = <<>>
    /\ fetched = <<>>
    /\ payload = <<>>
    /\ collected = <<>>
    /\ items = <<>>
    /\ results = <<>>
    /\ out = <<>>

Call(result) ==
    /\ phase = "ready"
    /\ phase' = "done"
    /\ output' = result
    /\ UNCHANGED <<input, pipelineVars>>

(***************************************************************************)
(* SpecSummarize: one item through the summarizing callback, on each of    *)
(* summarizeAI's paths.                                                    *)
(***************************************************************************)
SegPalette ==
    { <<"a">>, <<".">>, <<" ">>, <<"\n">>, <<"<">>, <<">">>,
      Rep("x", 120), Rep("y", 239) }

SummaryTexts ==
    {Concat(segs) : segs \in UNION {[1..n -> SegPalette] : n \in 0..MaxSegs}}

Untitled == <<"U","n","t","i","t","l","e","d">>

SummaryTitles == {Untitled, Rep("T", 250)}

\* What the backend may answer with.
Replies ==
    { <<>>, <<" ", "\n">>, <<"O","k",".">>, Rep("z", 300),
      <<" ">> \o Rep("z", 240) \o <<" ">>, Rep("w", 200) \o <<"<">> \o Rep("w", 100) }

SummaryItem(title, raw) ==
    [title |-> title, link |-> <<"l">>, isoDate |-> "", source |-> <<>>, raw |-> raw]

InitSummarize ==
    /\ PipelineIdle
    /\ phase = "ready"
    /\ output = <<>>
    /\ \E title \in SummaryTitles, raw \in SummaryTexts, hasKey \in BOOLEAN :
           input = [item |-> SummaryItem(title, raw), hasKey |-> hasKey]

\* no credential: local fallback
SummarizeLocal ==
    /\ ~input.hasKey
    /\ Call([path |-> "local", reply |-> <<>>,
             item |-> Enrich(input.item, FALSE, Response(FALSE, <<>>))])

\* the backend answers
SummarizeReply ==
    /\ input.hasKey
    /\ \E content \in Replies :
           Call([path |-> IF trim(content) = <<>> THEN "empty" ELSE "reply",
                 reply |-> content,
                 item |-> Enrich(input.item, TRUE, Response(TRUE, content))])

\* the backend call throws or answers with an error status
SummarizeFailed ==
    /\ input.hasKey
    /\ Call([path |-> "failed", reply |-> <<>>,
             item |-> Enrich(input.item, TRUE, Response(FALSE, <<>>))])

NextSummarize == SummarizeLocal \/ SummarizeReply \/ SummarizeFailed

SpecSummarize == InitSummarize /\ [][NextSummarize]_vars

\* C4: every enriched item's summary has at most 240 characters, on every path of
\* summarizeAI: local fallback without credential, a backend reply (capped again by
\* the fallback step), an empty backend reply, a failed backend call.
SummaryWithinCap ==
    phase = "done" => Len(output.item.summary) <= 240

\* A backend reply longer than the cap came back cut to exactly 240 characters,
\* the last one the ellipsis.
SummaryCapReached ==
    /\ phase = "done"
    /\ output.path = "reply"
    /\ Len(trim(output.reply)) > 240
    /\ Len(output.item.summary) = 240
    /\ output.item.summary[240] = ELLIPSIS

(***************************************************************************)
(* SpecDedupe: dedupeSort on item sequences.                               *)
(***************************************************************************)
DigitAt == <<"1","2","3","4","5","6","7","8","9">>

DedupeLinks == {<<>>, <<"u">>, <<"v">>, <<"w">>}

DedupeDates == {DAY1_ISO, DAY1_RFC, DAY2_ISO, BAD_DATE}

\* The items are distinct objects: the title records the position in the input.
DedupeItem(i, link, isoDate) ==
    [title |-> <<"n", DigitAt[i]>>, link |-> link, isoDate |-> isoDate,
     source |-> <<>>, raw |-> <<>>]

\* every sequence of at most MaxAll items over the links and dates above
InitDedupe ==
    /\ PipelineIdle
    /\ phase = "ready"
    /\ output = <<>>
    /\ \E n \in 0..MaxAll :
          \E c \in [1..n -> DedupeLinks \X DedupeDates] :
              input = [i \in 1..n |-> DedupeItem(i, c[i][1], c[i][2])]

DedupeSortCall == \E sorted \in dedupeSort(input) : Call(sorted)

NextDedupe == DedupeSortCall

SpecDedupe == InitDedupe /\ [][NextDedupe]_vars

FirstWithLink(all, link) ==
    CHOOSE i \in 1..Len(all) :
        all[i].link = link /\ \A j \in 1..(i - 1) : all[j].link # link

\* C1: the output of dedupeSort holds no item without a link, and for every
\* distinct non-empty link of the input exactly one item, the first one with that
\* link in input order.
DedupeFirstWins ==
    phase = "done" =>
        /\ \A k \in 1..Len(output) : output[k].link # <<>>
        /\ \A i \in 1..Len(input) :
              input[i].link # <<>> =>
                  /\ Cardinality({k \in 1..Len(output) :
                                     output[k].link = input[i].link}) = 1
                  /\ \E k \in 1..Len(output) :
                         output[k] = input[FirstWithLink(input, input[i].link)]

\* An input with an item without a link and a link that two items carry, the
\* second one dated later: the first one alone is the output.
DedupeCollapsed ==
    /\ phase = "done"
    /\ \E i \in 1..Len(input) : input[i].link = <<>>
    /\ \E i, j \in 1..Len(input) :
          /\ i < j
          /\ input[i].link # <<>>
          /\ input[i].link = input[j].link
          /\ input[i].isoDate = DAY1_ISO
          /\ input[j].isoDate = DAY2_ISO
          /\ output = <<input[i]>>

PositionIn(s, x) == CHOOSE k \in 1..Len(s) : s[k] = x

\* C2: the output of dedupeSort is the stable sort of the deduplicated sequence by
\* isoDate descending: no item is followed by an item of a later date, and items of
\* identical isoDate keep the relative order of the deduplicated input.
SortedByDateStable ==
    phase = "done" =>
        /\ \A i, j \in 1..Len(output) :
              (/\ i < j
               /\ NewDate(output[i].isoDate).valid
               /\ NewDate(output[j].isoDate).valid)
                  => NewDate(output[i].isoDate).time >= NewDate(output[j].isoDate).time
        /\ LET dedup == Dedupe(input)
           IN  \A a, b \in 1..Len(dedup) :
                   (a < b /\ dedup[a].isoDate = dedup[b].isoDate)
                       => PositionIn(output, dedup[a]) < PositionIn(output, dedup[b])

\* C2 with every date parseable (what the comparator supports).
AllDatesValid(s) == \A i \in 1..Len(s) : NewDate(s[i].isoDate).valid

SortedWhenDatesValid ==
    (phase = "done" /\ AllDatesValid(input)) =>
        /\ \A i \in 1..(Len(output) - 1) :
              NewDate(output[i].isoDate).time >= NewDate(output[i + 1].isoDate).time
        /\ LET dedup == Dedupe(input)
           IN  \A a, b \in 1..Len(dedup) :
                   (a < b /\ NewDate(dedup[a].isoDate).time = NewDate(dedup[b].isoDate).time)
                       => PositionIn(output, dedup[a]) < PositionIn(output, dedup[b])

(***************************************************************************)
(* SpecFilter: isMRStory on single items.                                  *)
(***************************************************************************)
FilterWords ==
    { <<"S","u","r","v","e","y">>, <<"F","O","R","E","C","A","S","T">>,
      <<"h","e","l","l","o">>, <<"c","x">>, <<"M","a","r","k","e","t">>,
      <<"s","i","z","e">>, <<"U","S","D">> }

WordLists(words, n) == UNION {[1..k -> words] : k \in 0..n}

FilterTitles == {Join(ws, <<" ">>) : ws \in WordLists(FilterWords, MaxFilterWords)}

FilterRaws == {<<>>} \cup FilterWords

HTTPS == <<"h","t","t","p","s",":","/","/">>

FilterLinks ==
    { HTTPS \o <<"w","w","w",".","q","u","i","r","k","s",".","c","o","m","/","a">>,
      HTTPS \o <<"R","e","s","e","a","r","c","h","-","L","i","v","e",".","c","o","m","/","x">>,
      <<"h","t","t","p",":","/","/","m","r","w","e","b",".","c","o","m">>,
      HTTPS \o <<"n","e","w","s",".","g","o","o","g","l","e",".","c","o","m","/",
                 "q","u","i","r","k","s",".","c","o","m">>,
      HTTPS \o <<"b","l","o","g",".","q","u","i","r","k","s",".","c","o","m","/","p">>,
      <<"q","u","i","r","k","s",".","c","o","m","/","a">> }

InitFilter ==
    /\ PipelineIdle
    /\ phase = "ready"
    /\ output = <<>>
    /\ \E title \in FilterTitles, raw \in FilterRaws, link \in FilterLinks :
           input = [title |-> title, link |-> link, isoDate |-> DAY1_ISO,
                    source |-> <<>>, raw |-> raw]

FilterCall == Call(isMRStory(input))

NextFilter == FilterCall

SpecFilter == InitFilter /\ [][NextFilter]_vars

\* The claim's terms: the lowercased title-plus-text, and what it and the link hold.
TitlePlusText(item) == toLowerCase(item.title \o <<" ">> \o item.raw)

HasNegativeTerm(item) == \E t \in NEGATIVE_GENERIC : includes(TitlePlusText(item), t)

HasPositiveTerm(item) == \E t \in POSITIVE_MR : includes(TitlePlusText(item), t)

FromTrustedHost(item) == hostname(item.link) \in SOURCE_WHITELIST

FilterTrustedBypass ==
    /\ phase = "done"
    /\ FromTrustedHost(input)
    /\ ~HasPositiveTerm(input)
    /\ ~HasNegativeTerm(input)
    /\ output = TRUE

(***************************************************************************)
(* SpecFunding: isFunding on titles and summaries.                         *)
(***************************************************************************)
FundingWords ==
    { <<"A","c","m","e">>, <<"r","a","i","s","e","s">>, <<"r","a","i","s","e","d">>,
      <<"$","1","0","M">>, <<"S","e","r","i","e","s">>, <<"B">>, <<"F">>,
      <<"I","n","v","e","s","t","o","r","s">>, <<"i","n","v","e","s","t","s">>,
      <<"i","n","v","e","s","t","m","e","n","t">>, <<"V","C">>, <<"M","&","A">>,
      <<"s","e","e","d","s">>, <<"G","l","o","b","a","l">>, <<"C","X">>,
      <<"m","e","r","g","e","r">>, <<"f","u","n","d","i","n","g">>,
      <<"v","e","n","t","u","r","e">>, <<"a","c","q","u","i","r","e","s">>,
      <<"b","u","y","o","u","t">>, <<"a","c","q","u","i","s","i","t","i","o","n">> }

AcmeRaises == <<"A","c","m","e"," ","r","a","i","s","e","s"," ","$","1","0","M"," ","S","e","r","i","e","s"," ","B">>

GlobalCX ==
    <<"G","l","o","b","a","l"," ","C","X"," ","M","a","r","k","e","t"," ","t","o"," ","R","e","a","c","h"," ","$","5","B"," ","b","y"," ","2","0","3","0">>

FundingSummaries ==
    { <<>>, <<"S","e","e","d"," ","r","o","u","n","d"," ","c","l","o","s","e","d",".">>,
      <<"S","u","r","v","e","y"," ","o","f"," ","s","h","o","p","p","e","r","s",".">>,
      <<"B","a","c","k","e","r","s"," ","i","n","v","e","s","t"," ","a","g","a","i","n",".">> }

FundingTitles ==
    {Join(ws, <<" ">>) : ws \in WordLists(FundingWords, MaxFundingWords)}
        \cup {AcmeRaises, GlobalCX}

InitFunding ==
    /\ PipelineIdle
    /\ phase = "ready"
    /\ output = <<>>
    /\ \E title \in FundingTitles, summary \in FundingSummaries :
           input = [title |-> title, summary |-> summary]

FundingCall == Call(isFunding(input.title, input.summary))

NextFunding == FundingCall

SpecFunding == InitFunding /\ [][NextFunding]_vars

\* s holds one of the given terms, or "series", white space and a letter a-e that
\* ends a word, in any letter case
HoldsTerm(s, terms) ==
    \/ \E t \in terms : includes(toLowerCase(s), t)
    \/ \E i \in 0..Len(s) : SeriesAt(toLowerCase(s), i)

\* C8 as stated: isFunding is true iff title or summary holds, in any letter case,
\* one of funding, raised, seed, series A to E, acquire, acquisition, merger, M&A,
\* buyout, invest, investment, venture, vc.
FundingIffListedTerms ==
    phase = "done" =>
        (output <=> (HoldsTerm(input.title, FundingLiteralsAsListed)
                        \/ HoldsTerm(input.summary, FundingLiteralsAsListed)))

\* C8 as amended: the vocabulary is funding, raises, raised, seed, series A to E,
\* acquire, acquisition, merger, M&A, buyout, invests, investment, venture, vc; the
\* two example titles are classified true and false.
FundingIffCodeTerms ==
    phase = "done" =>
        /\ output <=> (HoldsTerm(input.title, FundingLiterals)
                          \/ HoldsTerm(input.summary, FundingLiterals))
        /\ (input.title = AcmeRaises => output = TRUE)
        /\ (input.title = GlobalCX /\ input.summary = <<>> => output = FALSE)

\* A title with "raises" and no other term was classified as funding.
FundingByRaises ==
    /\ phase = "done"
    /\ includes(toLowerCase(input.title), <<"r","a","i","s","e","s">>)
    /\ ~HoldsTerm(input.title, FundingLiteralsAsListed)
    /\ ~HoldsTerm(input.summary, FundingLiteralsAsListed)
    /\ output = TRUE

(***************************************************************************)
(* SpecHashtags: makeHashtags on lists of titles.                          *)
(***************************************************************************)
HashWords ==
    { <<"z","e","b","r","a">>, <<"C","o","n","s","t","r","u","c","t","o","r">>,
      <<"G","r","o","w","t","h">>, <<"A","I">>, <<"a","p","e","x">>, <<"f","o","x">> }

\* what stands between two words: a blank, the publisher separator, or the end of
\* one title and the start of the next
Separators == {"blank", "dash", "next"}

SeparatorText(sep) == IF sep = "dash" THEN Dash ELSE <<" ">>

TitlesOf(ws, seps) ==
    LET k       == Len(ws)
        breaks  == {i \in 1..(k - 1) : seps[i] = "next"}
        TitleOf(i) == 1 + Cardinality({b \in breaks : b < i})
        Piece(i) == IF i = 1 \/ (i - 1) \in breaks THEN ws[i]
                    ELSE SeparatorText(seps[i - 1]) \o ws[i]
        Group(t) == Ascending({i \in 1..k : TitleOf(i) = t})
    IN  IF k = 0 THEN <<>>
        ELSE [t \in 1..(1 + Cardinality(breaks)) |->
                 [title |-> Concat([g \in 1..Len(Group(t)) |-> Piece(Group(t)[g])])]]

BigToken(i) == <<"t", "o", "k", LowerAlpha[i]>>

BigTitle(from, to) == Join([i \in 1..(to - from + 1) |-> BigToken(from + i - 1)], <<" ">>)

\* a title of n distinct words, followed by a title that repeats the last r of them
BigTitleLists ==
    {IF r = 0 THEN <<[title |-> BigTitle(1, n)]>>
     ELSE <<[title |-> BigTitle(1, n)], [title |-> BigTitle(n - r + 1, n)]>> :
        n \in (MaxBigTokens - 4)..MaxBigTokens, r \in 0..2}

\* the titles made of at most MaxHashWords words, and the long lists
InitHashtags ==
    /\ PipelineIdle
    /\ phase = "ready"
    /\ output = <<>>
    /\ \/ \E k \in 0..MaxHashWords :
              \E ws \in [1..k -> HashWords], seps \in [1..(k - 1) -> Separators] :
                  input = TitlesOf(ws, seps)
       \/ input \in BigTitleLists

HashtagsCall == \E tags \in makeHashtags(input) : Call(tags)

NextHashtags == HashtagsCall

SpecHashtags == InitHashtags /\ [][NextHashtags]_vars

\* the token a hashtag was rendered from: its label without the #, in lower case
TokenOf(tag) == toLowerCase(SubSeq(tag.label, 2, Len(tag.label)))

OutputTokens == [k \in 1..Len(output) |-> TokenOf(output[k])]

\* occurrences of the token w in the titles, as makeHashtags reads them
Occurrences(news, w) ==
    LET words == CountedWords(news)
    IN  Cardinality({i \in 1..Len(words) : words[i] = w})

\* C7: makeHashtags returns at most 20 hashtags, in order of token frequency over
\* the titles descending, ties in ascending lexicographic order of the token; every
\* returned token has length at least 4 or is a listed short acronym; a stop word is
\* never returned; no titles give no hashtags.
HashtagsRankedByFrequency ==
    phase = "done" =>
        /\ Len(output) <= 20
        /\ \A i, j \in 1..Len(output) :
              i < j =>
                  LET fi == Occurrences(input, OutputTokens[i])
                      fj == Occurrences(input, OutputTokens[j])
                  IN  \/ fi > fj
                      \/ fi = fj /\ localeCompare(OutputTokens[i], OutputTokens[j]) < 0
        /\ \A k \in 1..Len(output) :
              /\ Len(OutputTokens[k]) >= 4 \/ OutputTokens[k] \in ALLOW_SHORT
              /\ OutputTokens[k] \notin STOP
        /\ (input = <<>> => output = <<>>)

\* C7 for titles none of whose words names a property of Object.prototype.
NoInheritedWord(news) ==
    \A i \in 1..Len(news) :
        \A k \in 1..Len(Words(news[i].title)) :
            Words(news[i].title)[k] \notin ObjectPrototypeNames

HashtagsRankedUnlessInherited ==
    NoInheritedWord(input) => HashtagsRankedByFrequency

\* the words counted in the part of the title between its first and its last ' - '
MiddleWords(title) ==
    LET offs  == DashOffsets(title)
        first == CHOOSE i \in offs : \A j \in offs : i <= j
        last  == CHOOSE i \in offs : \A j \in offs : j <= i
    IN  IF Cardinality(offs) < 2 THEN <<>>
        ELSE SelectSeq(Words(SubSeq(title, first + Len(Dash) + 1, last)), Counted)

InOutput(w) == \E k \in 1..Len(output) : OutputTokens[k] = w

\* C10 as stated: only the last ' - ' segment of a title is left out; in a title with
\* two or more ' - ' the words of every other segment are counted (so that, below the
\* cap, each of them that is long enough is returned).
HashtagsCountAllButLastSegment ==
    (phase = "done" /\ Len(output) < 20) =>
        \A i \in 1..Len(input) :
            \A k \in 1..Len(MiddleWords(input[i].title)) :
                LET w == MiddleWords(input[i].title)[k]
                IN  (Len(w) >= 4 \/ w \in ALLOW_SHORT) => InOutput(w)

\* the title up to its first ' - '
FirstSegment(title) ==
    CHOOSE p \in {SubSeq(title, 1, n) : n \in 0..Len(title)} :
        \/ p = title /\ ~includes(title, Dash)
        \/ /\ HasAt(title, Len(p), Dash)
           /\ ~includes(SubSeq(title, 1, Len(p) + 2), Dash)

FirstSegments(news) == [i \in 1..Len(news) |-> [title |-> FirstSegment(news[i].title)]]

\* C10 as amended: makeHashtags leaves out everything from the first ' - ' of a title
\* on: every returned token is a word of some title's first segment, and the result
\* is a result for the first segments alone.
HashtagsCountFirstSegmentOnly ==
    phase = "done" =>
        /\ \A k \in 1..Len(output) :
              \E i \in 1..Len(input) :
                  \E m \in 1..Len(Words(FirstSegment(input[i].title))) :
                      Words(FirstSegment(input[i].title))[m] = OutputTokens[k]
        /\ output \in makeHashtags(FirstSegments(input))

\* A title with two ' - ': the word of its first segment was returned, the long
\* enough word of its middle segment was not.
HashtagsMiddleSegmentDropped ==
    /\ phase = "done"
    /\ \E i \in 1..Len(input) :
          /\ Cardinality(DashOffsets(input[i].title)) >= 2
          /\ \E k \in 1..Len(MiddleWords(input[i].title)) :
                /\ Len(MiddleWords(input[i].title)[k]) >= 4
                /\ ~InOutput(MiddleWords(input[i].title)[k])
          /\ \E m \in 1..Len(Words(FirstSegment(input[i].title))) :
                InOutput(Words(FirstSegment(input[i].title))[m])

(***************************************************************************)
(* SpecAssemble: the document slices on long enriched sequences.  The      *)
(* items are enriched by the local fallback from four kinds of entry; the  *)
(* last kind names funding in its third sentence only, which the summary   *)
(* does not keep.                                                          *)
(***************************************************************************)
DigitChars == <<"0","1","2","3","4","5","6","7","8","9">>

\* the link of the i-th item
NumberedLink(i) == <<"l", DigitChars[(i \div 10) + 1], DigitChars[(i % 10) + 1]>>

AssembleItem(i, title, raw) ==
    Enrich([title |-> title, link |-> NumberedLink(i), isoDate |-> DAY1_ISO,
            source |-> <<>>, raw |-> raw], FALSE, Response(FALSE, <<>>))

PlainItem(i) ==
    AssembleItem(i, <<"P","a","n","e","l"," ","s","u","r","v","e","y">>,
                 <<"S","h","o","p","p","e","r","s"," ","l","i","k","e"," ","p","a","n","e","l","s",".">>)

FundingTitleItem(i) ==
    AssembleItem(i, <<"A","c","m","e"," ","r","a","i","s","e","s"," ","s","e","e","d">>,
                 <<"D","e","t","a","i","l","s"," ","s","o","o","n",".">>)

FundingSummaryItem(i) ==
    AssembleItem(i, <<"A","c","m","e"," ","n","e","w","s">>,
                 <<"A","c","m","e"," ","r","a","i","s","e","d"," ","c","a","s","h","."," ","M","o","r","e",".">>)

FundingLateItem(i) ==
    AssembleItem(i, <<"A","c","m","e"," ","u","p","d","a","t","e">>,
                 <<"O","n","e","."," ","T","w","o","."," ","A","c","m","e"," ","r","a","i","s","e","d"," ","c","a","s","h",".">>)

AssemblePatterns == {"funding", "plain", "alternate", "late", "mixed", "last"}

\* the i-th of n items under a pattern
PatternItem(p, i, n) ==
    CASE p = "funding"   -> FundingTitleItem(i)
      [] p = "plain"     -> PlainItem(i)
      [] p = "alternate" -> IF i % 2 = 1 THEN PlainItem(i) ELSE FundingSummaryItem(i)
      [] p = "late"      -> IF i <= TOP_NEWS_MAX THEN FundingLateItem(i)
                            ELSE FundingTitleItem(i)
      [] p = "mixed"     -> IF i % 3 = 0 THEN FundingSummaryItem(i)
                            ELSE IF i % 3 = 1 THEN PlainItem(i) ELSE FundingLateItem(i)
      [] p = "last"      -> IF i = n THEN FundingSummaryItem(i) ELSE PlainItem(i)

InitAssemble ==
    /\ PipelineIdle
    /\ phase = "ready"
    /\ output = <<>>
    /\ \E p \in AssemblePatterns, n \in 0..MaxEnriched :
           input = [i \in 1..n |-> PatternItem(p, i, n)]

AssembleCall == \E doc \in Assemble(input) : Call(doc)

NextAssemble == AssembleCall

SpecAssemble == InitAssemble /\ [][NextAssemble]_vars

\* positions of the enriched items the funding vocabulary matches, by title or summary
FundingPositions(enriched) ==
    {i \in 1..Len(enriched) :
        \/ HoldsTerm(enriched[i].title, FundingLiterals)
        \/ HoldsTerm(enriched[i].summary, FundingLiterals)}

\* C9: funding_ma is the first 50 (or fewer) items, in their order, of the whole
\* enriched sequence that the funding classifier accepts by title or final summary
\* (not raw text); it is not limited to the 50 items of top_news.
FundingSliceRule ==
    phase = "done" =>
        LET F     == FundingPositions(input)
            order == Ascending(F)
        IN  /\ Len(output.funding_ma) = Min(50, Cardinality(F))
            /\ \A k \in 1..Len(output.funding_ma) : output.funding_ma[k] = input[order[k]]

\* funding_ma holds an item that stands behind the 50 items of top_news, and leaves
\* out an item whose raw text, but neither title nor summary, names funding.
FundingBeyondTopNews ==
    /\ phase = "done"
    /\ Len(output.top_news) = 50
    /\ \E k \in 1..Len(output.funding_ma) :
          \A j \in 1..Len(output.top_news) : output.top_news[j] # output.funding_ma[k]
    /\ \E i \in 1..Len(input) :
          /\ HoldsTerm(input[i].raw, FundingLiterals)
          /\ \A k \in 1..Len(output.funding_ma) : output.funding_ma[k] # input[i]

(***************************************************************************)
(* Properties of run()                                                     *)
(***************************************************************************)
\* the items feed f has contributed
Contribution(f) == [i \in 1..Len(payload[f]) |-> toItem(payload[f][i])]

\* What holds of the retrieval loop in every state: each feed before the current
\* one has been attempted once and no other feed at all, a failed feed has delivered
\* nothing, and collected holds what the feeds delivered, in feed-list order.
EachFeedAttemptedOnce ==
    /\ \A f \in FEEDS : attempts[f] = (IF f < feedIdx THEN 1 ELSE 0)
    /\ \A f \in FEEDS : (fetched[f] = "none") <=> (f >= feedIdx)
    /\ \A f \in FEEDS : fetched[f] = "failed" => payload[f] = <<>>
    /\ collected = Concat([f \in 1..(feedIdx - 1) |-> Contribution(f)])
    /\ pc # "fetch" => feedIdx = LastFeed + 1

\* The document written holds the items of the feeds that succeeded.
WrittenFromCollected ==
    pc = "done" =>
        /\ \E sorted \in dedupeSort(collected) : items = FilterMR(sorted)
        /\ Len(out.top_news) = Len(items)
        /\ \A k \in 1..Len(items) : out.top_news[k].link = items[k].link

\* Short of the written document the run is never stuck: a feed is left to retrieve,
\* a summarization is outstanding, or the document can be assembled.
RunCanGoOn ==
    pc # "done" =>
        \/ pc = "fetch" /\ feedIdx \in FEEDS
        \/ pc = "summarize" /\ \E k \in 1..Len(results) : ~results[k].settled
        \/ pc = "summarize" /\ \A k \in 1..Len(results) : results[k].settled

\* C5: a feed whose retrieval fails contributes no items; every feed of the list is
\* attempted exactly once, in order, whether or not an earlier one failed; and the
\* run is never stopped by a failure: it goes on to the document, which is written
\* from the items of the feeds that succeeded.
FeedFailureIsolated ==
    /\ EachFeedAttemptedOnce
    /\ RunCanGoOn
    /\ WrittenFromCollected

\* The run has written a document with news in it although a feed failed before a
\* feed that delivered entries.
FailedFeedThenNews ==
    /\ pc = "done"
    /\ out.top_news # <<>>
    /\ \E f, g \in FEEDS :
          /\ f < g
          /\ fetched[f] = "failed"
          /\ fetched[g] = "ok"
          /\ payload[g] # <<>>

\* C6: the document exists only once the summarization of every post-filter item
\* has completed, and whatever the order of completion, the enriched sequence
\* follows the order of the post-filter items, item k carrying the summary computed
\* from item k's own text.
JoinBarrierKeepsOrder ==
    /\ pc # "done" => out = <<>>
    /\ pc = "done" =>
          /\ Len(results) = Len(items)
          /\ \A k \in 1..Len(items) : results[k].settled
          /\ Len(out.top_news) = Len(items)
          /\ \A k \in 1..Len(items) :
                out.top_news[k] =
                    WithSummary(items[k],
                                summarizeAI(TextOf(items[k]), key, results[k].resp))

\* The document is written after a later item's summary arrived before an earlier
\* item's, the two summaries being different.
LaterItemSettledFirst ==
    /\ pc = "done"
    /\ \E j, k \in 1..Len(items) :
          /\ j < k
          /\ results[j].at > results[k].at
          /\ out.top_news[j].summary # out.top_news[k].summary

=============================================================================
